---- MODULE Spec2Model ----
(***************************************************************************)
(* Collision-and-movement resolution of model_loading.cpp: the AABB        *)
(* helpers, wouldCollideAt and one processInput pass per frame of the      *)
(* render loop.                                                            *)
(*                                                                         *)
(* Numbers.  The program computes in float; the model computes in fixed    *)
(* point: lengths in millimetres (1.0f = 1000), scale factors in           *)
(* thousandths, time in milliseconds, angles in hundredths of a radian     *)
(* (ROTATION_SPEED = 0.01f = 1), sines and cosines in ten-thousandths.     *)
(* Every product is rounded to the nearest unit, as a float product is     *)
(* rounded to the nearest float.                                           *)
(***************************************************************************)
EXTENDS Integers, Sequences, FiniteSets, TLC

VARIABLES model_trans_loc, rotation, moment_before_collision, gBuildings,
          deltaTime, keys, windowShouldClose, locals, frames, overlapCall

vars == <<model_trans_loc, rotation, moment_before_collision, gBuildings,
          deltaTime, keys, windowShouldClose, locals, frames, overlapCall>>

(***************************************************************************)
(* Tunables (#define, lines 18-21) and glm::pi<float>().                   *)
(***************************************************************************)
\* 3.5f units per second, in millimetres per second
CAR_SPEED == 3500

CAR_SPEED_BOOST_FACTOR == 3

\* 0.01f rad per pass, in hundredths of a radian
ROTATION_SPEED == 1

\* glm::pi<float>() in hundredths of a radian
PI == 314

(***************************************************************************)
(* Bounds of the exploration.                                              *)
(***************************************************************************)
\* passes of the render loop explored by Spec and SpecSurround
MaxFrames == 2

\* passes explored by SpecTurn once a movement key has been pressed
MaxDrives == 1

\* largest box coordinate SpecOverlap draws
MaxCoord == 1

\* elapsed times (ms) a frame of Spec and SpecSurround may take
DeltaTimes == {16, 794}

\* elapsed times (ms) a frame of SpecTurn may take
TurnDeltaTimes == {500, 1000}

(***************************************************************************)
(* Arithmetic helpers.                                                     *)
(***************************************************************************)
\* a / b rounded to the nearest integer, halves away from zero (b > 0)
Round(a, b) == IF a >= 0 THEN (2 * a + b) \div (2 * b)
               ELSE -((2 * (-a) + b) \div (2 * b))

Vec3(x, y, z) == [x |-> x, y |-> y, z |-> z]

VecAdd(p, q) == Vec3(p.x + q.x, p.y + q.y, p.z + q.z)

\* component-wise product with a scale given in thousandths
VecScale(p, s) == Vec3(Round(p.x * s.x, 1000), Round(p.y * s.y, 1000),
                       Round(p.z * s.z, 1000))

Min2(a, b) == IF b < a THEN b ELSE a

Max2(a, b) == IF a < b THEN b ELSE a

\* glm::min / glm::max of two vectors, component-wise
VecMin(p, q) == Vec3(Min2(p.x, q.x), Min2(p.y, q.y), Min2(p.z, q.z))

VecMax(p, q) == Vec3(Max2(p.x, q.x), Max2(p.y, q.y), Max2(p.z, q.z))

\* the nested glm::min / glm::max over 8 corners (lines 93-94, 145-148)
Min8(c) == VecMin(VecMin(VecMin(c[1], c[2]), VecMin(c[3], c[4])),
                  VecMin(VecMin(c[5], c[6]), VecMin(c[7], c[8])))

Max8(c) == VecMax(VecMax(VecMax(c[1], c[2]), VecMax(c[3], c[4])),
                  VecMax(VecMax(c[5], c[6]), VecMax(c[7], c[8])))

\* the 8 corners of a box, in the order c0..c7 of the code
Corners(box) ==
    LET mn == box.minLocal
        mx == box.maxLocal
    IN  << Vec3(mn.x, mn.y, mn.z), Vec3(mn.x, mn.y, mx.z),
           Vec3(mn.x, mx.y, mn.z), Vec3(mn.x, mx.y, mx.z),
           Vec3(mx.x, mn.y, mn.z), Vec3(mx.x, mn.y, mx.z),
           Vec3(mx.x, mx.y, mn.z), Vec3(mx.x, mx.y, mx.z) >>

(***************************************************************************)
(* sinf / cosf: the argument (hundredths of a radian) is brought into      *)
(* [-pi/2, pi/2] and the Taylor series is summed in ten-thousandths.       *)
(***************************************************************************)
RECURSIVE Series(_, _, _, _)
\* term + the following terms of the alternating series up to degree last;
\* xs is the argument in ten-thousandths of a radian
Series(term, xs, n, last) ==
    IF n > last THEN 0
    ELSE term + Series(-Round(Round(term * xs, 10000) * xs,
                              10000 * (n + 1) * (n + 2)),
                       xs, n + 2, last)

\* the argument folded into [-pi/2, pi/2], in ten-thousandths of a radian
Fold(yaw) == LET xs == yaw * 100
             IN  IF xs > 15708 THEN 31416 - xs
                 ELSE IF xs < -15708 THEN -31416 - xs
                 ELSE xs

Folded(yaw) == yaw * 100 > 15708 \/ yaw * 100 < -15708

sinSeries(yaw) == Series(Fold(yaw), Fold(yaw), 1, 9)

cosSeries(yaw) == IF Folded(yaw) THEN -Series(10000, Fold(yaw), 0, 10)
                  ELSE Series(10000, Fold(yaw), 0, 10)

\* the angles a pass can hand to sinf / cosf: a yaw in [-PI, PI] moved by
\* at most one rotation step each way
Angles == (-PI - 2 * ROTATION_SPEED)..(PI + 2 * ROTATION_SPEED)

\* the series, evaluated once per angle
sinTable == [yaw \in Angles |-> sinSeries(yaw)]

cosTable == [yaw \in Angles |-> cosSeries(yaw)]

sinf(yaw) == sinTable[yaw]

cosf(yaw) == cosTable[yaw]

(***************************************************************************)
(* Collision types and helpers (lines 48-166).                             *)
(***************************************************************************)
AABB(mn, mx) == [minLocal |-> mn, maxLocal |-> mx]

\* car mesh box: (-0.9, 0, -1.9) .. (0.9, 1.5, 1.9)
kCarLocalAABB == AABB(Vec3(-900, 0, -1900), Vec3(900, 1500, 1900))

\* building mesh box before scene scale: (-10, 0, -8) .. (10, 10, 8)
kBuildingLocalAABB == AABB(Vec3(-10000, 0, -8000), Vec3(10000, 10000, 8000))

\* BUILDING_T without the mesh pointer; buildingRotation is cosmetic
Building(pos, scale, rot) ==
    [buildingPos |-> pos, buildingScaleFactor |-> scale, buildingRotation |-> rot]

\* the three buildings main() registers
ReferenceScene ==
    << Building(Vec3(0, 0, -5000), Vec3(40, 40, 40), PI),
       Building(Vec3(8000, 0, -12000), Vec3(50, 50, 50), 0),
       Building(Vec3(-6000, 0, 2000), Vec3(35, 35, 35), 0) >>

\* "add as many as you like": a building just right of the car and one ahead
\* of it, so that an oblique forward step is blocked on X and on Z
SurroundScene ==
    << Building(Vec3(1330, 0, 0), Vec3(40, 40, 40), 0),
       Building(Vec3(0, 0, 4000), Vec3(40, 40, 40), 0) >>

toWorldAABB_NonRotated(localBox, pos, scale) ==
    LET corners == Corners(localBox)
        c == << VecScale(corners[1], scale), VecScale(corners[2], scale),
                VecScale(corners[3], scale), VecScale(corners[4], scale),
                VecScale(corners[5], scale), VecScale(corners[6], scale),
                VecScale(corners[7], scale), VecScale(corners[8], scale) >>
    IN  AABB(VecAdd(Min8(c), pos), VecAdd(Max8(c), pos))

\* mutant of aabbOverlap: touching boxes taken as separated
aabbOverlapStrict(a, b) ==
    IF a.maxLocal.x <= b.minLocal.x \/ a.minLocal.x >= b.maxLocal.x THEN FALSE
    ELSE IF a.maxLocal.y <= b.minLocal.y \/ a.minLocal.y >= b.maxLocal.y THEN FALSE
    ELSE IF a.maxLocal.z <= b.minLocal.z \/ a.minLocal.z >= b.maxLocal.z THEN FALSE
    ELSE TRUE

aabbOverlap(a, b) ==
    IF a.maxLocal.x < b.minLocal.x \/ a.minLocal.x > b.maxLocal.x THEN FALSE
    ELSE IF a.maxLocal.y < b.minLocal.y \/ a.minLocal.y > b.maxLocal.y THEN FALSE
    ELSE IF a.maxLocal.z < b.minLocal.z \/ a.minLocal.z > b.maxLocal.z THEN FALSE
    ELSE TRUE

rotateY(p, yaw) ==
    LET c == cosf(yaw)
        s == sinf(yaw)
    IN  Vec3(Round(c * p.x + s * p.z, 10000), p.y,
             Round(-s * p.x + c * p.z, 10000))

carWorldAABBAt(carPos, carYaw) ==
    LET corners == Corners(kCarLocalAABB)
        r == << VecAdd(rotateY(corners[1], carYaw), carPos),
                VecAdd(rotateY(corners[2], carYaw), carPos),
                VecAdd(rotateY(corners[3], carYaw), carPos),
                VecAdd(rotateY(corners[4], carYaw), carPos),
                VecAdd(rotateY(corners[5], carYaw), carPos),
                VecAdd(rotateY(corners[6], carYaw), carPos),
                VecAdd(rotateY(corners[7], carYaw), carPos),
                VecAdd(rotateY(corners[8], carYaw), carPos) >>
    IN  AABB(Min8(r), Max8(r))

wouldCollideAt(proposedCarPos, proposedYaw) ==
    LET carW == carWorldAABBAt(proposedCarPos, proposedYaw)
    IN  \E i \in 1..Len(gBuildings) :
            aabbOverlap(carW,
                        toWorldAABB_NonRotated(kBuildingLocalAABB,
                                               gBuildings[i].buildingPos,
                                               gBuildings[i].buildingScaleFactor))

(***************************************************************************)
(* processInput (lines 451-524), one step of the code per operator.        *)
(***************************************************************************)
Pressed(k, key) == key \in k

\* mutant of speedOf: the boost applies whenever LEFT_SHIFT is held
speedBoostAlways(k) ==
    IF Pressed(k, "LEFT_SHIFT") THEN CAR_SPEED * CAR_SPEED_BOOST_FACTOR
    ELSE CAR_SPEED

\* lines 453-456
speedOf(k) ==
    IF Pressed(k, "LEFT_SHIFT") /\ ~Pressed(k, "S")
    THEN CAR_SPEED * CAR_SPEED_BOOST_FACTOR
    ELSE CAR_SPEED

\* mutant of wrapPi: no wrap at all
wrapNone(a) == a

\* lines 475-479: one subtraction, then one addition
wrapPi(a) ==
    LET a1 == IF a > PI THEN a - 2 * PI ELSE a
    IN  IF a1 < -PI THEN a1 + 2 * PI ELSE a1

\* lines 463-472
rotatedOf(k) == Pressed(k, "A") \/ Pressed(k, "D")

\* lines 462-472: proposedYaw before the wrap
rawYawOf(yaw, k) ==
    yaw + (IF Pressed(k, "A") THEN ROTATION_SPEED ELSE 0)
        - (IF Pressed(k, "D") THEN ROTATION_SPEED ELSE 0)

\* mutant of commitYaw: the proposed yaw is committed untested
commitYawUntested(pos, yaw, pYaw, rotated) ==
    IF rotated THEN pYaw ELSE yaw

\* lines 482-488: the yaw after the rotation step
commitYaw(pos, yaw, pYaw, rotated) ==
    IF rotated /\ ~wouldCollideAt(pos, pYaw) THEN pYaw ELSE yaw

\* mutant of fwdOf: S is not read, every pass without W reverses
fwdNoRelease(k) == IF Pressed(k, "W") THEN 1 ELSE -1

\* lines 492-494
fwdOf(k) ==
    (IF Pressed(k, "W") THEN 1 ELSE 0) - (IF Pressed(k, "S") THEN 1 ELSE 0)

\* line 497: fwd * speed * deltaTime, speed in mm/s and deltaTime in ms
stepOf(fwd, speed, dt) == Round(fwd * speed * dt, 1000)

\* lines 491-500
proposedPosOf(pos, yaw, fwd, step) ==
    IF fwd # 0
    THEN Vec3(pos.x + Round(step * sinf(yaw), 10000), pos.y,
              pos.z + Round(step * cosf(yaw), 10000))
    ELSE pos

\* line 507
slideXOf(pos, pPos) == Vec3(pPos.x, pos.y, pos.z)

\* mutant of slideZOf: the Z candidate keeps the current z
slideZStale(pos, pPos) == Vec3(pos.x, pos.y, pos.z)

\* line 508
slideZOf(pos, pPos) == Vec3(pos.x, pos.y, pPos.z)

Resolved(pos, mbc, collided, xFree, zFree) ==
    [pos |-> pos, mbc |-> mbc, collided |-> collided, xFree |-> xFree,
     zFree |-> zFree]

\* mutant of resolve: a committed move does not update moment_before_collision
resolveNoTrack(pos, mbc, pPos, yaw) ==
    IF ~wouldCollideAt(pPos, yaw)
    THEN Resolved(pPos, mbc, FALSE, FALSE, FALSE)
    ELSE LET xFree == ~wouldCollideAt(slideXOf(pos, pPos), yaw)
             zFree == ~wouldCollideAt(slideZOf(pos, pPos), yaw)
         IN  IF xFree /\ ~zFree
             THEN Resolved(slideXOf(pos, pPos), slideXOf(pos, pPos), TRUE, xFree, zFree)
             ELSE IF ~xFree /\ zFree
             THEN Resolved(slideZOf(pos, pPos), slideZOf(pos, pPos), TRUE, xFree, zFree)
             ELSE Resolved(mbc, mbc, TRUE, xFree, zFree)

\* mutant of resolve: the last branch commits the proposed position
resolveNoRestore(pos, mbc, pPos, yaw) ==
    IF ~wouldCollideAt(pPos, yaw)
    THEN Resolved(pPos, pPos, FALSE, FALSE, FALSE)
    ELSE LET xFree == ~wouldCollideAt(slideXOf(pos, pPos), yaw)
             zFree == ~wouldCollideAt(slideZOf(pos, pPos), yaw)
         IN  IF xFree /\ ~zFree
             THEN Resolved(slideXOf(pos, pPos), slideXOf(pos, pPos), TRUE, xFree, zFree)
             ELSE IF ~xFree /\ zFree
             THEN Resolved(slideZOf(pos, pPos), slideZOf(pos, pPos), TRUE, xFree, zFree)
             ELSE Resolved(pPos, mbc, TRUE, xFree, zFree)

\* mutant of resolve: the two slide branches are swapped
resolveSwapped(pos, mbc, pPos, yaw) ==
    IF ~wouldCollideAt(pPos, yaw)
    THEN Resolved(pPos, pPos, FALSE, FALSE, FALSE)
    ELSE LET xFree == ~wouldCollideAt(slideXOf(pos, pPos), yaw)
             zFree == ~wouldCollideAt(slideZOf(pos, pPos), yaw)
         IN  IF xFree /\ ~zFree
             THEN Resolved(slideZOf(pos, pPos), slideZOf(pos, pPos), TRUE, xFree, zFree)
             ELSE IF ~xFree /\ zFree
             THEN Resolved(slideXOf(pos, pPos), slideXOf(pos, pPos), TRUE, xFree, zFree)
             ELSE Resolved(mbc, mbc, TRUE, xFree, zFree)

\* lines 502-523: commit, slide or stay; xFree and zFree are computed only
\* when the proposed position collides
resolve(pos, mbc, pPos, yaw) ==
    IF ~wouldCollideAt(pPos, yaw)
    THEN Resolved(pPos, pPos, FALSE, FALSE, FALSE)
    ELSE LET xFree == ~wouldCollideAt(slideXOf(pos, pPos), yaw)
             zFree == ~wouldCollideAt(slideZOf(pos, pPos), yaw)
         IN  IF xFree /\ ~zFree
             THEN Resolved(slideXOf(pos, pPos), slideXOf(pos, pPos), TRUE, xFree, zFree)
             ELSE IF ~xFree /\ zFree
             THEN Resolved(slideZOf(pos, pPos), slideZOf(pos, pPos), TRUE, xFree, zFree)
             ELSE Resolved(mbc, mbc, TRUE, xFree, zFree)

\* the locals of the last pass (proposedYaw before and after line 480)
Locals(speed, rawYaw, pYaw, rotated, fwd, step, pPos, r) ==
    [speed |-> speed, rawYaw |-> rawYaw, proposedYaw |-> pYaw,
     rotated |-> rotated, fwd |-> fwd,
     step |-> step, proposedPos |-> pPos, collided |-> r.collided,
     xFree |-> r.xFree, zFree |-> r.zFree]

Origin == Vec3(0, 0, 0)

NoLocals ==
    Locals(CAR_SPEED, 0, 0, FALSE, 0, 0, Origin, Resolved(Origin, Origin, FALSE, FALSE, FALSE))

NoCall == [a |-> kCarLocalAABB, b |-> kBuildingLocalAABB, done |-> FALSE,
           result |-> FALSE]

\* one pass over the key state k, dt ms after the previous frame; each
\* local is bound once, in the order the code computes it
processInput(k, dt) ==
    \E speed \in {speedOf(k)}, rotated \in {rotatedOf(k)},
       rawYaw \in {rawYawOf(rotation, k)}, fwd \in {fwdOf(k)} :
    \E pYaw \in {wrapPi(rawYaw)} :
    \E yaw \in {commitYaw(model_trans_loc, rotation, pYaw, rotated)},
       step \in {IF fwd # 0 THEN stepOf(fwd, speed, dt) ELSE 0} :
    \E pPos \in {proposedPosOf(model_trans_loc, yaw, fwd, step)} :
    \E r \in {resolve(model_trans_loc, moment_before_collision, pPos, yaw)} :
        /\ windowShouldClose' = (windowShouldClose \/ Pressed(k, "ESCAPE"))
        /\ rotation' = yaw
        /\ model_trans_loc' = r.pos
        /\ moment_before_collision' = r.mbc
        /\ locals' = Locals(speed, rawYaw, pYaw, rotated, fwd, step, pPos, r)

\* one iteration of the render loop (lines 359-439): the elapsed time is
\* taken, processInput runs on the key state the last poll left
mainLoop(k, dt) ==
    /\ ~windowShouldClose
    /\ deltaTime' = dt
    /\ keys' = k
    /\ processInput(k, dt)
    /\ UNCHANGED <<gBuildings, overlapCall>>

KeyNames == {"A", "D", "W", "S", "LEFT_SHIFT", "ESCAPE"}

IntentKeys == {"A", "D", "W", "S", "LEFT_SHIFT"}

\* the state main() sets up before the loop (lines 28-29, 38, 226-230)
InitScene(scene) ==
    /\ model_trans_loc = Origin
    /\ rotation = 0
    /\ gBuildings = scene
    /\ moment_before_collision = Origin
    /\ deltaTime = 0
    /\ keys = {}
    /\ windowShouldClose = FALSE
    /\ locals = NoLocals
    /\ frames = 0
    /\ overlapCall = NoCall

Init == InitScene(ReferenceScene)

Frame ==
    \E k \in SUBSET KeyNames, dt \in DeltaTimes :
        /\ frames < MaxFrames
        /\ frames' = frames + 1
        /\ mainLoop(k, dt)

Next == Frame

Spec == Init /\ [][Next]_vars

(***************************************************************************)
(* SpecSurround: the same loop in a scene with a building beside the car   *)
(* and one ahead of it.                                                    *)
(***************************************************************************)
InitSurround == InitScene(SurroundScene)

SpecSurround == InitSurround /\ [][Next]_vars

(***************************************************************************)
(* SpecTurn: the reference scene, any number of rotation-only passes and   *)
(* then at most MaxDrives passes with a movement key held.                 *)
(***************************************************************************)
DriveKeySets == {{"W"}, {"S"}, {"W", "LEFT_SHIFT"}}

Turn ==
    \E k \in SUBSET {"A", "D"}, dt \in TurnDeltaTimes :
        /\ frames = 0
        /\ frames' = frames
        /\ mainLoop(k, dt)

Drive ==
    \E k \in DriveKeySets, dt \in TurnDeltaTimes :
        /\ frames < MaxDrives
        /\ frames' = frames + 1
        /\ mainLoop(k, dt)

NextTurn == Turn \/ Drive

SpecTurn == Init /\ [][NextTurn]_vars

(***************************************************************************)
(* SpecOverlap: aabbOverlap applied to every pair of boxes with corners    *)
(* in 0..MaxCoord.                                                         *)
(***************************************************************************)
Points == {Vec3(x, y, z) : x \in 0..MaxCoord, y \in 0..MaxCoord, z \in 0..MaxCoord}

Boxes == {AABB(mn, mx) : mn \in Points, mx \in Points} \ 
         {box \in {AABB(mn, mx) : mn \in Points, mx \in Points} :
             \/ box.minLocal.x > box.maxLocal.x
             \/ box.minLocal.y > box.maxLocal.y
             \/ box.minLocal.z > box.maxLocal.z}

InitOverlap ==
    /\ model_trans_loc = Origin
    /\ rotation = 0
    /\ gBuildings = ReferenceScene
    /\ moment_before_collision = Origin
    /\ deltaTime = 0
    /\ keys = {}
    /\ windowShouldClose = FALSE
    /\ locals = NoLocals
    /\ frames = 0
    /\ overlapCall \in {[a |-> a, b |-> b, done |-> FALSE, result |-> FALSE] :
                            a \in Boxes, b \in Boxes}

CallOverlap ==
    /\ ~overlapCall.done
    /\ overlapCall' = [overlapCall EXCEPT !.done = TRUE,
                                          !.result = aabbOverlap(overlapCall.a, overlapCall.b)]
    /\ UNCHANGED <<model_trans_loc, rotation, moment_before_collision, gBuildings,
                   deltaTime, keys, windowShouldClose, locals, frames>>

NextOverlap == CallOverlap

SpecOverlap == InitOverlap /\ [][NextOverlap]_vars

(***************************************************************************)
(* Properties.  A step of the loop is a pass: unprimed variables are the   *)
(* state before it, keys', deltaTime' and locals' are what the pass read   *)
(* and computed, the other primed variables the state it leaves.           *)
(***************************************************************************)
\* the three collision tests of lines 502-511, on the pass's proposal
PassFullHit == wouldCollideAt(locals'.proposedPos, rotation')

PassXFree ==
    ~wouldCollideAt(slideXOf(model_trans_loc, locals'.proposedPos), rotation')

PassZFree ==
    ~wouldCollideAt(slideZOf(model_trans_loc, locals'.proposedPos), rotation')

\* C1: a pass with rotate-left, rotate-right, forward, backward and boost all
\* released leaves position and yaw as they were, whatever the elapsed time.
NoIntentStability ==
    [][keys' \cap IntentKeys = {}
         => model_trans_loc' = model_trans_loc /\ rotation' = rotation]_vars

\* C1 witness: an idle pass from a pose the car was driven and turned to
IdlePassAwayFromStart ==
    /\ frames = 2
    /\ keys \cap IntentKeys = {}
    /\ model_trans_loc # Origin
    /\ rotation # 0

\* C2: when the proposed position and both slide candidates collide, the
\* pass leaves the position equal to moment_before_collision and equal to the
\* position before the pass.
FullBlockRestores ==
    [][PassFullHit /\ ~PassXFree /\ ~PassZFree
         => /\ model_trans_loc' = moment_before_collision'
            /\ model_trans_loc' = model_trans_loc]_vars

\* C2 witness: a pass whose oblique step was blocked on both axes
FullBlockReached ==
    /\ locals.collided /\ ~locals.xFree /\ ~locals.zFree
    /\ locals.proposedPos.x # model_trans_loc.x
    /\ locals.proposedPos.z # model_trans_loc.z

\* C3: when the proposed position collides and exactly one slide candidate is
\* free, only that axis is committed (x from the proposal with y and z kept,
\* or z from the proposal with x and y kept) and moment_before_collision is
\* set to the new position.
SingleAxisSlide ==
    [][/\ PassFullHit /\ PassXFree /\ ~PassZFree
            => /\ model_trans_loc'
                    = [model_trans_loc EXCEPT !.x = locals'.proposedPos.x]
               /\ moment_before_collision' = model_trans_loc'
       /\ PassFullHit /\ ~PassXFree /\ PassZFree
            => /\ model_trans_loc'
                    = [model_trans_loc EXCEPT !.z = locals'.proposedPos.z]
               /\ moment_before_collision' = model_trans_loc']_vars

\* C3 witness: a pass that slid along Z only
ZSlideReached ==
    /\ locals.collided /\ ~locals.xFree /\ locals.zFree
    /\ model_trans_loc.z = locals.proposedPos.z
    /\ model_trans_loc.x # locals.proposedPos.x
    /\ model_trans_loc.z # 0

\* a pass that slid along X only (the other case of C3)
XSlideReached ==
    /\ locals.collided /\ locals.xFree /\ ~locals.zFree
    /\ model_trans_loc.x = locals.proposedPos.x
    /\ model_trans_loc.z # locals.proposedPos.z
    /\ model_trans_loc.x # 0

\* C4: when a rotation key is pressed, the proposed (wrapped) yaw is committed
\* if and only if the car at its current position with that yaw overlaps no
\* building; otherwise the yaw is left unchanged.
BlockedRotationKeepsYaw ==
    [][keys' \cap {"A", "D"} # {}
         => rotation' = IF wouldCollideAt(model_trans_loc, locals'.proposedYaw)
                        THEN rotation
                        ELSE locals'.proposedYaw]_vars

\* C4 witness: a rotation key was pressed and the proposed yaw was rejected
RotationBlocked ==
    /\ keys \cap {"A", "D"} # {}
    /\ rotation # locals.proposedYaw

\* C5: when the proposed position collides and both slide candidates are free,
\* the X-only slide is committed and moment_before_collision updated.
BothFreeCommitsX ==
    [][PassFullHit /\ PassXFree /\ PassZFree
         => /\ model_trans_loc'
                 = [model_trans_loc EXCEPT !.x = locals'.proposedPos.x]
            /\ moment_before_collision' = model_trans_loc']_vars

\* C6: aabbOverlap is true exactly when on each of the three axes
\* a.max >= b.min and a.min <= b.max (bounds are inclusive).
TouchingCounts ==
    overlapCall.done =>
        (overlapCall.result <=>
            LET a == overlapCall.a
                b == overlapCall.b
            IN  /\ a.maxLocal.x >= b.minLocal.x /\ a.minLocal.x <= b.maxLocal.x
                /\ a.maxLocal.y >= b.minLocal.y /\ a.minLocal.y <= b.maxLocal.y
                /\ a.maxLocal.z >= b.minLocal.z /\ a.minLocal.z <= b.maxLocal.z)

\* C6 witness: two boxes that only touch on x were reported as overlapping
TouchingReached ==
    /\ overlapCall.done /\ overlapCall.result
    /\ overlapCall.a.maxLocal.x = overlapCall.b.minLocal.x
    /\ overlapCall.a.minLocal.x < overlapCall.a.maxLocal.x

\* C7: the committed yaw always lies in [-pi, pi].
YawInRange == -PI <= rotation /\ rotation <= PI

\* C7 witness: a proposal beyond pi was wrapped once and committed
YawWrapped ==
    /\ locals.rawYaw > PI
    /\ rotation = locals.rawYaw - 2 * PI

BoostAsymmetry ==
    frames > 0 =>
        /\ locals.speed = IF "LEFT_SHIFT" \in keys /\ "S" \notin keys
                          THEN CAR_SPEED * CAR_SPEED_BOOST_FACTOR
                          ELSE CAR_SPEED
        /\ "S" \in keys /\ "W" \notin keys
              => locals.step = -Round(CAR_SPEED * deltaTime, 1000)
        /\ "S" \in keys /\ "W" \in keys => locals.step = 0
        /\ "W" \in keys /\ "S" \notin keys /\ "LEFT_SHIFT" \in keys
              => locals.step
                   = Round(CAR_SPEED * CAR_SPEED_BOOST_FACTOR * deltaTime, 1000)

\* C9 witness: the car reversed with the boost key held
ReverseWithBoostKey ==
    /\ {"S", "LEFT_SHIFT"} \subseteq keys
    /\ "W" \notin keys
    /\ locals.step < 0
    /\ model_trans_loc.z < 0

\* C10: from the reference scene, the car's world box at the committed
\* position and yaw never overlaps a building's world box.
NoOverlap == ~wouldCollideAt(model_trans_loc, rotation)

\* C10 witness: a pass away from the start whose proposal collided
BlockedAwayFromStart ==
    /\ locals.collided
    /\ model_trans_loc # Origin

\* C11: after initialisation and after every pass moment_before_collision
\* equals the car's position, so the snap of the both-blocked branch puts the
\* car where it was at the start of the pass.
LastSafeTracksPosition == moment_before_collision = model_trans_loc

\* C11 witness: a both-blocked pass of a car that had been driven off the
\* start position
FullBlockAwayFromStart ==
    /\ frames = 2
    /\ locals.collided /\ ~locals.xFree /\ ~locals.zFree
    /\ locals.step # 0
    /\ model_trans_loc # Origin

====
